---- MODULE Spec2Model ----
(***************************************************************************)
(* DatasourceUtil (dolphinscheduler-datasource-api): the dispatcher from   *)
(* DbType to DatasourceProcessor, its forwarding operations, and the table *)
(* discovery getMySqlTables with its close helper.                         *)
(*                                                                         *)
(* One sequential caller is modelled.  At pc = "idle" it either performs a *)
(* dispatcher operation (one atomic action, its observation stored in the  *)
(* variable last) or starts getMySqlTables, which then runs statement by   *)
(* statement; every call into the JDBC driver or into the connection       *)
(* provider is a nondeterministic choice over the results the callee can   *)
(* give.  Inside the try block every exception takes the same way, to the  *)
(* finally block, so one failure per call stands for all; inside close the *)
(* catch clauses tell SQLException from any other exception, so both are   *)
(* outcomes of a close() call.                                             *)
(*                                                                         *)
(* SpecThreads lets two threads call the class concurrently, each with the *)
(* frame of its own call.  SpecForm is the databus form component of the   *)
(* UI (databus.vue) with its module-level editor and its mount timer.      *)
(***************************************************************************)
EXTENDS Integers, Sequences, FiniteSets, TLC

(***************************************************************************)
(* Bounds of the model.                                                    *)
(***************************************************************************)
\* getMySqlTables calls made in one behaviour
MaxCalls == 2
\* rows one metadata cursor yields before it must end or fail
MaxRows == 2

(***************************************************************************)
(* Text.  A string is a sequence of characters; a regular expression is a  *)
(* sequence of tokens: a literal character, DOT (any one character),       *)
(* DOTSTAR (any run of characters), or BAD, which stands for text          *)
(* java.util.regex cannot compile.                                         *)
(***************************************************************************)
TableNames == { <<"a">>, <<"a", "b">>, <<"b", "a">> }

TablePatterns ==
    { <<"a">>, <<"a", "DOTSTAR">>, <<"DOT", "b">>, <<"c">>, <<"BAD">> }

PatternCompiles(regex) == \A i \in 1..Len(regex) : regex[i] # "BAD"

RECURSIVE MatchHere(_, _)
\* the whole of input is consumed by the whole of regex
MatchHere(regex, input) ==
    IF regex = <<>> THEN input = <<>>
    ELSE IF Head(regex) = "DOTSTAR"
         THEN \E k \in 0..Len(input) :
                  MatchHere(Tail(regex), SubSeq(input, k + 1, Len(input)))
    ELSE IF Head(regex) = "DOT"
         THEN input # <<>> /\ MatchHere(Tail(regex), Tail(input))
    ELSE input # <<>> /\ Head(input) = Head(regex)
                      /\ MatchHere(Tail(regex), Tail(input))

\* the mutant of PatternMatches: Matcher.find(), a match anywhere in the input
PatternFinds(regex, input) ==
    MatchHere(<<"DOTSTAR">> \o regex \o <<"DOTSTAR">>, input)

\* Pattern.matches(regex, input) for a regex that compiles
PatternMatches(regex, input) == MatchHere(regex, input)

\* String.toUpperCase
ToUpperChar(c) ==
    CASE c = "a" -> "A"
      [] c = "b" -> "B"
      [] c = "s" -> "S"
      [] OTHER -> c

toUpperCase(s) == [i \in 1..Len(s) |-> ToUpperChar(s[i])]

(***************************************************************************)
(* State.                                                                  *)
(***************************************************************************)
VARIABLES
    pc,            \* where the caller is: "idle", or a statement of getMySqlTables
    args,          \* getMySqlTables' parameters
    tables,        \* local: the list being accumulated
    connectionParam, \* local: the MysqlConnectionParam built from the parameters
    asked,         \* history: the getConnection request this call made
    conn,          \* local: the connection (0 is null)
    rs,            \* local: the result set (0 is null)
    pending,       \* the exception thrown inside the try block, if any
    exit,          \* at pc = "done": the exception leaving the method, if any
    yielded,       \* history: the names the cursor has yielded in this call
    query,         \* history: the arguments of the getTables call made
    closeLog,      \* history: the close() calls made in this call, in order
    diagnostics,   \* history: the printStackTrace calls made in this call
    open,          \* resources handed out whose close() was never called
    nCalls,        \* getMySqlTables calls started
    providerCalls, \* getConnection calls the connection provider received
    processors,    \* the class's static final processor fields
    last           \* the caller's observation of its latest finished operation
                   \* (NoOp while a getMySqlTables call is running)

tableVars == <<args, tables, connectionParam, asked, conn, rs, pending, exit,
               yielded, query, closeLog, diagnostics>>

\* the state of threads that call the class concurrently
VARIABLES
    thread         \* per thread: the frame of its running call

\* the state of the databus form component and of its module
VARIABLES
    editor,        \* the module-level variable editor of databus.vue
    form,          \* the component instance: its lifecycle phase and data
    timer,         \* the setTimeout callbacks of mounted() not yet run
    verified       \* the latest _verification call: what it read and did

formVars == <<editor, form, timer, verified>>

\* the single caller's state
callVars == <<pc, args, tables, connectionParam, asked, conn, rs, pending,
              exit, yielded, query, closeLog, diagnostics, open, nCalls,
              providerCalls, last>>

vars == <<callVars, processors, thread, formVars>>

NoArgs == [url |-> <<>>, database |-> <<>>, tablePattern |-> <<>>,
           user |-> <<>>, password |-> <<>>]

NoParam == [kind |-> "none"]

NoError == [type |-> "none", origin |-> "none"]

NoQuery == [issued |-> FALSE]

NoRequest == [dbType |-> "none"]

NoOp == [op |-> "none"]

\* the locals and histories of getMySqlTables outside a call
LocalsBlank ==
    /\ args = NoArgs
    /\ tables = <<>>
    /\ connectionParam = NoParam
    /\ asked = NoRequest
    /\ conn = 0
    /\ rs = 0
    /\ pending = NoError
    /\ exit = NoError
    /\ yielded = <<>>
    /\ query = NoQuery
    /\ closeLog = <<>>
    /\ diagnostics = <<>>

(***************************************************************************)
(* getMySqlTables and close.                                               *)
(***************************************************************************)
TableUrls == { <<"h">> }

Databases == { <<"d">> }

Users == { <<"a">> }

Passwords == { <<"a">>, <<"s">> }

TablePasswords == { <<"s">> }

\* what DataSourceClientProvider.getConnection can do: hand out a connection
\* or fail
ProviderOutcomes == { "connection", "ConnectivityError" }

\* what a JDBC call inside the try block can do
JdbcOutcomes == { "ok", "SQLException" }

\* what a close() call can do: return, throw the SQLException its signature
\* declares, or throw an unchecked exception
CloseOutcomes == { "ok", "SQLException", "RuntimeException" }

Connection(n) == [res |-> "Connection", call |-> n]

ResultSet(n) == [res |-> "ResultSet", call |-> n]

Thrown(type, origin) == [type |-> type, origin |-> origin]

LocalsReset ==
    /\ args' = NoArgs
    /\ tables' = <<>>
    /\ connectionParam' = NoParam
    /\ asked' = NoRequest
    /\ conn' = 0
    /\ rs' = 0
    /\ pending' = NoError
    /\ exit' = NoError
    /\ yielded' = <<>>
    /\ query' = NoQuery
    /\ closeLog' = <<>>
    /\ diagnostics' = <<>>

\* control reaches the end of getMySqlTables: by `return tables` when error
\* is NoError, by the exception error otherwise
Leave(error, log, diags) ==
    /\ pc' = "done"
    /\ exit' = error
    /\ closeLog' = log
    /\ diagnostics' = diags
    /\ UNCHANGED <<args, tables, connectionParam, asked, conn, rs, pending,
                   yielded,
                   query, last>>

\* the mutant of connectionRefused: the failure is caught and swallowed, and
\* the method returns its empty list
connectionRefused_swallowed ==
    /\ pc' = "done"
    /\ exit' = NoError
    /\ UNCHANGED <<conn, rs, pending, yielded, query, closeLog, diagnostics,
                   open>>

\* line 140 stands before the try block: an exception of getConnection
\* leaves the method at once, past the finally block
connectionRefused ==
    /\ pc' = "done"
    /\ exit' = Thrown("ConnectivityError", "getConnection")
    /\ UNCHANGED <<conn, rs, pending, yielded, query, closeLog, diagnostics,
                   open>>

\* line 140: what DataSourceClientProvider.getConnection is called with
getConnection_request(param) == [dbType |-> "MYSQL", param |-> param]

\* lines 134-140: the list and the MysqlConnectionParam are built, and the
\* connection is requested from the provider for DbType.MYSQL
getMySqlTables ==
    /\ pc = "idle"
    /\ nCalls < MaxCalls
    /\ nCalls' = nCalls + 1
    /\ providerCalls' = providerCalls + 1
    /\ last' = NoOp
    /\ UNCHANGED <<processors, thread, formVars>>
    /\ \E url \in TableUrls, database \in Databases,
          tablePattern \in TablePatterns, user \in Users,
          password \in TablePasswords, got \in ProviderOutcomes :
         /\ args' = [url |-> url, database |-> database,
                     tablePattern |-> tablePattern, user |-> user,
                     password |-> password]
         /\ tables' = <<>>
         /\ connectionParam' = [kind |-> "MYSQL", jdbcUrl |-> url,
                                user |-> user, password |-> password]
         /\ asked' = getConnection_request(connectionParam')
         /\ IF got = "connection"
            THEN /\ conn' = nCalls + 1
                 /\ open' = open \cup { Connection(nCalls + 1) }
                 /\ pc' = "getMetaData"
                 /\ UNCHANGED <<rs, pending, exit, yielded, query, closeLog,
                                diagnostics>>
            ELSE connectionRefused

\* line 143: conn.getMetaData()
getMetaData ==
    /\ pc = "getMetaData"
    /\ \E got \in JdbcOutcomes :
         IF got = "ok"
         THEN /\ pc' = "getTables"
              /\ UNCHANGED pending
         ELSE /\ pending' = Thrown("SQLException", "getMetaData")
              /\ pc' = "closeRs"
    /\ UNCHANGED <<args, tables, connectionParam, asked, conn, rs, exit,
                   yielded,
                   query, closeLog, diagnostics, open, nCalls, providerCalls,
                   processors, thread, formVars, last>>

\* line 144: dmd.getTables(database, user.toUpperCase(), null, {"TABLE"})
getTables ==
    /\ pc = "getTables"
    /\ \E got \in JdbcOutcomes :
         IF got = "ok"
         THEN /\ rs' = conn
              /\ open' = open \cup { ResultSet(conn) }
              /\ query' = [issued |-> TRUE,
                           catalog |-> args.database,
                           schemaPattern |-> toUpperCase(args.user),
                           types |-> { "TABLE" }]
              /\ pc' = "next"
              /\ UNCHANGED pending
         ELSE /\ pending' = Thrown("SQLException", "getTables")
              /\ pc' = "closeRs"
              /\ UNCHANGED <<rs, open, query>>
    /\ UNCHANGED <<args, tables, connectionParam, asked, conn, exit, yielded,
                   closeLog, diagnostics, nCalls, providerCalls, processors,
                   thread, formVars, last>>

\* line 145: rs.next()
next ==
    /\ pc = "next"
    /\ \/ /\ Len(yielded) < MaxRows
          /\ pc' = "row"
          /\ UNCHANGED pending
       \/ /\ pc' = "closeRs"
          /\ UNCHANGED pending
       \/ /\ pending' = Thrown("SQLException", "next")
          /\ pc' = "closeRs"
    /\ UNCHANGED <<args, tables, connectionParam, asked, conn, rs, exit,
                   yielded,
                   query, closeLog, diagnostics, open, nCalls, providerCalls,
                   processors, thread, formVars, last>>

\* lines 146-148: the row's TABLE_NAME is read and matched against the
\* pattern; for a match it is read again and appended to the list
row ==
    /\ pc = "row"
    /\ \/ \E name \in TableNames :
            /\ yielded' = Append(yielded, name)
            /\ IF ~PatternCompiles(args.tablePattern)
               THEN /\ pending' = Thrown("PatternSyntaxException", "matches")
                    /\ pc' = "closeRs"
                    /\ UNCHANGED tables
               ELSE IF PatternMatches(args.tablePattern, name)
               THEN \/ /\ tables' = Append(tables, name)
                       /\ pc' = "next"
                       /\ UNCHANGED pending
                    \/ /\ pending' = Thrown("SQLException", "getString")
                       /\ pc' = "closeRs"
                       /\ UNCHANGED tables
               ELSE /\ pc' = "next"
                    /\ UNCHANGED <<tables, pending>>
       \/ /\ pending' = Thrown("SQLException", "getString")
          /\ pc' = "closeRs"
          /\ UNCHANGED <<tables, yielded>>
    /\ UNCHANGED <<args, connectionParam, asked, conn, rs, exit, query,
                   closeLog,
                   diagnostics, open, nCalls, providerCalls, processors,
                   thread, formVars, last>>

\* the mutant of closeRs: the SQLException of rs.close() is not caught, and
\* leaves close and the method
closeRs_uncaught ==
    /\ pc = "closeRs"
    /\ IF rs # 0
       THEN \E got \in CloseOutcomes :
              /\ open' = open \ { ResultSet(rs) }
              /\ IF got # "ok"
                 THEN Leave(Thrown(got, "rs.close"), Append(closeLog, "rs"),
                            diagnostics)
                 ELSE /\ closeLog' = Append(closeLog, "rs")
                      /\ pc' = "closeStmt"
                      /\ UNCHANGED <<args, tables, connectionParam, asked,
                                     conn, rs,
                                     pending, exit, yielded, query,
                                     diagnostics, last>>
       ELSE /\ pc' = "closeStmt"
            /\ UNCHANGED <<tableVars, open, last>>
    /\ UNCHANGED <<nCalls, providerCalls, processors, thread, formVars>>

\* lines 157-163 of close(conn, null, rs), entered from the finally block
closeRs ==
    /\ pc = "closeRs"
    /\ IF rs # 0
       THEN \E got \in CloseOutcomes :
              /\ open' = open \ { ResultSet(rs) }
              /\ IF got = "RuntimeException"
                 THEN Leave(Thrown("RuntimeException", "rs.close"),
                            Append(closeLog, "rs"), diagnostics)
                 ELSE /\ closeLog' = Append(closeLog, "rs")
                      /\ diagnostics' = IF got = "SQLException"
                                        THEN Append(diagnostics, "rs")
                                        ELSE diagnostics
                      /\ pc' = "closeStmt"
                      /\ UNCHANGED <<args, tables, connectionParam, asked,
                                     conn, rs,
                                     pending, exit, yielded, query, last>>
       ELSE /\ pc' = "closeStmt"
            /\ UNCHANGED <<tableVars, open, last>>
    /\ UNCHANGED <<nCalls, providerCalls, processors, thread, formVars>>

\* lines 164-170: the statement argument of the one call site is null
closeStmt ==
    /\ pc = "closeStmt"
    /\ LET stmt == 0
       IN  IF stmt # 0
           THEN \E got \in CloseOutcomes :
                  IF got = "RuntimeException"
                  THEN Leave(Thrown("RuntimeException", "stmt.close"),
                             Append(closeLog, "stmt"), diagnostics)
                  ELSE /\ closeLog' = Append(closeLog, "stmt")
                       /\ diagnostics' = IF got = "SQLException"
                                         THEN Append(diagnostics, "stmt")
                                         ELSE diagnostics
                       /\ pc' = "closeConn"
                       /\ UNCHANGED <<args, tables, connectionParam, asked,
                                      conn, rs,
                                      pending, exit, yielded, query, last>>
           ELSE /\ pc' = "closeConn"
                /\ UNCHANGED <<tableVars, last>>
    /\ UNCHANGED <<open, nCalls, providerCalls, processors, thread, formVars>>

\* the mutant of closeConn: the SQLException of conn.close() is not caught,
\* and replaces what the try block left
closeConn_uncaught ==
    /\ pc = "closeConn"
    /\ IF conn # 0
       THEN \E got \in CloseOutcomes :
              /\ open' = open \ { Connection(conn) }
              /\ IF got # "ok"
                 THEN Leave(Thrown(got, "conn.close"),
                            Append(closeLog, "conn"), diagnostics)
                 ELSE Leave(pending, Append(closeLog, "conn"), diagnostics)
       ELSE /\ Leave(pending, closeLog, diagnostics)
            /\ UNCHANGED open
    /\ UNCHANGED <<nCalls, providerCalls, processors, thread, formVars>>

\* lines 171-177, then the end of the finally block: the pending exception
\* is rethrown, or line 153 returns the list
closeConn ==
    /\ pc = "closeConn"
    /\ IF conn # 0
       THEN \E got \in CloseOutcomes :
              /\ open' = open \ { Connection(conn) }
              /\ IF got = "RuntimeException"
                 THEN Leave(Thrown("RuntimeException", "conn.close"),
                            Append(closeLog, "conn"), diagnostics)
                 ELSE Leave(pending, Append(closeLog, "conn"),
                            IF got = "SQLException"
                            THEN Append(diagnostics, "conn")
                            ELSE diagnostics)
       ELSE /\ Leave(pending, closeLog, diagnostics)
            /\ UNCHANGED open
    /\ UNCHANGED <<nCalls, providerCalls, processors, thread, formVars>>

\* the frame of getMySqlTables is popped: the caller has the list, or the
\* exception, and nothing else of the call
return ==
    /\ pc = "done"
    /\ pc' = "idle"
    /\ last' = [op |-> "getMySqlTables",
                returned |-> (exit = NoError),
                tables |-> IF exit = NoError THEN tables ELSE <<>>,
                error |-> exit]
    /\ LocalsReset
    /\ UNCHANGED <<open, nCalls, providerCalls, processors, thread, formVars>>

(***************************************************************************)
(* The dispatcher.                                                         *)
(***************************************************************************)
\* the DbType constants the switch of getDatasourceProcessor names
SupportedTypes ==
    { "MYSQL", "POSTGRESQL", "HIVE", "SPARK", "CLICKHOUSE", "ORACLE",
      "SQLSERVER", "DB2", "PRESTO" }

\* DbType: the supported constants and one the switch has no case for
DbType == SupportedTypes \cup { "OTHER" }

\* lines 57-65: nine `new` expressions, one object each, in nine final fields
StaticProcessors ==
    [ mysqlProcessor      |-> [class |-> "MysqlDatasourceProcessor", obj |-> 1],
      postgreSqlProcessor |-> [class |-> "PostgreSqlDatasourceProcessor", obj |-> 2],
      hiveProcessor       |-> [class |-> "HiveDatasourceProcessor", obj |-> 3],
      sparkProcessor      |-> [class |-> "SparkDatasourceProcessor", obj |-> 4],
      clickhouseProcessor |-> [class |-> "ClickHouseDatasourceProcessor", obj |-> 5],
      oracleProcessor     |-> [class |-> "OracleDatasourceProcessor", obj |-> 6],
      sqlServerProcessor  |-> [class |-> "SqlServerDatasourceProcessor", obj |-> 7],
      db2PROCESSOR        |-> [class |-> "Db2DatasourceProcessor", obj |-> 8],
      prestoPROCESSOR     |-> [class |-> "PrestoDatasourceProcessor", obj |-> 9] ]

Returns(v) == [thrown |-> FALSE, value |-> v]

Throws(e) == [thrown |-> TRUE, error |-> e]

\* the mutant of getDatasourceProcessor: the POSTGRESQL case returns the
\* field of the case above it
getDatasourceProcessor_copied(dbType) ==
    CASE dbType = "MYSQL"      -> Returns(processors.mysqlProcessor)
      [] dbType = "POSTGRESQL" -> Returns(processors.mysqlProcessor)
      [] dbType = "HIVE"       -> Returns(processors.hiveProcessor)
      [] dbType = "SPARK"      -> Returns(processors.sparkProcessor)
      [] dbType = "CLICKHOUSE" -> Returns(processors.clickhouseProcessor)
      [] dbType = "ORACLE"     -> Returns(processors.oracleProcessor)
      [] dbType = "SQLSERVER"  -> Returns(processors.sqlServerProcessor)
      [] dbType = "DB2"        -> Returns(processors.db2PROCESSOR)
      [] dbType = "PRESTO"     -> Returns(processors.prestoPROCESSOR)
      [] OTHER                 -> Throws("IllegalArgumentException")

\* lines 102-125
getDatasourceProcessor(dbType) ==
    CASE dbType = "MYSQL"      -> Returns(processors.mysqlProcessor)
      [] dbType = "POSTGRESQL" -> Returns(processors.postgreSqlProcessor)
      [] dbType = "HIVE"       -> Returns(processors.hiveProcessor)
      [] dbType = "SPARK"      -> Returns(processors.sparkProcessor)
      [] dbType = "CLICKHOUSE" -> Returns(processors.clickhouseProcessor)
      [] dbType = "ORACLE"     -> Returns(processors.oracleProcessor)
      [] dbType = "SQLSERVER"  -> Returns(processors.sqlServerProcessor)
      [] dbType = "DB2"        -> Returns(processors.db2PROCESSOR)
      [] dbType = "PRESTO"     -> Returns(processors.prestoPROCESSOR)
      [] OTHER                 -> Throws("IllegalArgumentException")

(***************************************************************************)
(* The DatasourceProcessor implementations are not part of these sources;  *)
(* what a processor does is taken from the capability contract.            *)
(***************************************************************************)
Hosts == { <<>>, <<"h">> }

\* the DbType a processor class serves
KindOf(processor) ==
    CASE processor.class = "MysqlDatasourceProcessor"      -> "MYSQL"
      [] processor.class = "PostgreSqlDatasourceProcessor" -> "POSTGRESQL"
      [] processor.class = "HiveDatasourceProcessor"       -> "HIVE"
      [] processor.class = "SparkDatasourceProcessor"      -> "SPARK"
      [] processor.class = "ClickHouseDatasourceProcessor" -> "CLICKHOUSE"
      [] processor.class = "OracleDatasourceProcessor"     -> "ORACLE"
      [] processor.class = "SqlServerDatasourceProcessor"  -> "SQLSERVER"
      [] processor.class = "Db2DatasourceProcessor"        -> "DB2"
      [] processor.class = "PrestoDatasourceProcessor"     -> "PRESTO"

\* BaseDataSourceParamDTO values
RawParams ==
    [ type : DbType, host : Hosts, port : { <<"3306">> }, database : Databases,
      userName : Users, password : Passwords ]

\* the fields of a BaseDataSourceParamDTO that validation rejects
OffendingFields(dto) ==
    { f \in { "host", "database", "userName" } : dto[f] = <<>> }

Cap_checkDatasourceParam(processor, dto) ==
    IF OffendingFields(dto) = {}
    THEN Returns("void")
    ELSE [thrown |-> TRUE, error |-> "ValidationError",
          fields |-> OffendingFields(dto)]

JdbcUrlOf(kind, host, port, database) ==
    <<"jdbc:", kind, "://">> \o host \o <<":">> \o port \o <<"/">> \o database

Cap_createConnectionParams(processor, dto) ==
    Returns([ kind     |-> KindOf(processor),
              address  |-> dto.host,
              port     |-> dto.port,
              database |-> dto.database,
              jdbcUrl  |-> JdbcUrlOf(KindOf(processor), dto.host, dto.port,
                                     dto.database),
              user     |-> dto.userName,
              password |-> dto.password ])

\* the ConnectionParam values callers hold: those the MySQL and the Hive
\* processor build from valid parameters
ConnectionParams ==
    { Cap_createConnectionParams(StaticProcessors[f],
          [type |-> KindOf(StaticProcessors[f]), host |-> h,
           port |-> <<"3306">>, database |-> d, userName |-> u,
           password |-> w]).value :
        f \in { "mysqlProcessor", "hiveProcessor" }, h \in Hosts \ { <<>> },
        d \in Databases, u \in Users, w \in Passwords }

JsonKeys == { "address", "port", "database", "jdbcUrl", "user", "password" }

\* the persisted form of a ConnectionParam: a JSON object of its fields
ToJson(param) == [k \in JsonKeys |-> param[k]]

MalformedJson == [address |-> <<"h">>]

ConnectionJsons == { ToJson(c) : c \in ConnectionParams } \cup { MalformedJson }

Cap_createConnectionParamsFromJson(processor, connectionJson) ==
    IF DOMAIN connectionJson = JsonKeys
    THEN Returns([k \in JsonKeys \cup { "kind" } |->
                     IF k = "kind" THEN KindOf(processor)
                     ELSE connectionJson[k]])
    ELSE Throws("ConfigurationError")

Cap_getJdbcUrl(processor, connectionParam_) ==
    Returns(connectionParam_.jdbcUrl)

Cap_createDatasourceParamDTO(processor, connectionJson) ==
    IF DOMAIN connectionJson = JsonKeys
    THEN Returns([ type     |-> KindOf(processor),
                   host     |-> connectionJson.address,
                   port     |-> connectionJson.port,
                   database |-> connectionJson.database,
                   userName |-> connectionJson.user,
                   password |-> connectionJson.password ])
    ELSE Throws("ConfigurationError")

\* engine kind, user and normalized URL, joined; the password is left out
Cap_getDatasourceUniqueId(processor, connectionParam_, dbType) ==
    Returns(<<dbType, "@">> \o connectionParam_.user \o <<"@">>
                \o connectionParam_.jdbcUrl)

TablesNext ==
    \/ getMySqlTables
    \/ getMetaData
    \/ getTables
    \/ next
    \/ row
    \/ closeRs
    \/ closeStmt
    \/ closeConn
    \/ return

(***************************************************************************)
(* The dispatcher's operations.  Each is one call of the caller, made      *)
(* between getMySqlTables calls; what the caller sees of it is stored in   *)
(* last: the operation, its input, the result of resolving the processor,  *)
(* the processor methods invoked (capCalls), and the value returned or the *)
(* exception thrown (outcome).                                             *)
(***************************************************************************)
Observed(op, dbType, input, resolved, capCalls, outcome) ==
    [op |-> op, dbType |-> dbType, input |-> input, resolved |-> resolved,
     capCalls |-> capCalls, outcome |-> outcome, before |-> NoOp]

\* the history a new observation carries: the observation it replaces, when
\* that was of the same operation and comparable, without its own history
Following(obs, comparable) ==
    IF last.op = obs.op /\ comparable
    THEN [obs EXCEPT !.before = [last EXCEPT !.before = NoOp]]
    ELSE obs

\* what every dispatcher operation leaves alone
DispatcherFrame ==
    /\ pc = "idle"
    /\ UNCHANGED <<pc, tableVars, open, nCalls, processors, thread, formVars>>

\* a direct call of the public getDatasourceProcessor
resolveProcessor ==
    /\ DispatcherFrame
    /\ UNCHANGED providerCalls
    /\ \E dbType \in DbType :
         LET resolved == getDatasourceProcessor(dbType)
         IN  last' = Following(Observed("getDatasourceProcessor", dbType,
                                        dbType, resolved, <<>>, resolved),
                               TRUE)

\* lines 72-74
checkDatasourceParam_obs(baseDataSourceParamDTO) ==
    LET resolved == getDatasourceProcessor(baseDataSourceParamDTO.type)
    IN  IF resolved.thrown
        THEN Observed("checkDatasourceParam", baseDataSourceParamDTO.type,
                      baseDataSourceParamDTO, resolved, <<>>, resolved)
        ELSE Observed("checkDatasourceParam", baseDataSourceParamDTO.type,
                      baseDataSourceParamDTO, resolved,
                      <<"checkDatasourceParam">>,
                      Cap_checkDatasourceParam(resolved.value,
                                               baseDataSourceParamDTO))

\* the mutant of checkDatasourceParam: the check opens a connection to probe
\* the host
checkDatasourceParam_probing ==
    /\ DispatcherFrame
    /\ providerCalls' = providerCalls + 1
    /\ \E dto \in RawParams : last' = checkDatasourceParam_obs(dto)

checkDatasourceParam ==
    /\ DispatcherFrame
    /\ UNCHANGED providerCalls
    /\ \E dto \in RawParams : last' = checkDatasourceParam_obs(dto)

\* the mutant of buildConnectionParams_obs: the parameters are checked first
\* and the connection parameters are built only when the check passes
buildConnectionParams_checked(baseDataSourceParamDTO) ==
    LET resolved == getDatasourceProcessor(baseDataSourceParamDTO.type)
        checked == Cap_checkDatasourceParam(resolved.value,
                                            baseDataSourceParamDTO)
    IN  IF resolved.thrown
        THEN Observed("buildConnectionParams", baseDataSourceParamDTO.type,
                      baseDataSourceParamDTO, resolved, <<>>, resolved)
        ELSE IF checked.thrown
        THEN Observed("buildConnectionParams", baseDataSourceParamDTO.type,
                      baseDataSourceParamDTO, resolved,
                      <<"checkDatasourceParam">>, checked)
        ELSE Observed("buildConnectionParams", baseDataSourceParamDTO.type,
                      baseDataSourceParamDTO, resolved,
                      <<"checkDatasourceParam", "createConnectionParams">>,
                      Cap_createConnectionParams(resolved.value,
                                                 baseDataSourceParamDTO))

\* lines 81-88
buildConnectionParams_obs(baseDataSourceParamDTO) ==
    LET resolved == getDatasourceProcessor(baseDataSourceParamDTO.type)
    IN  IF resolved.thrown
        THEN Observed("buildConnectionParams", baseDataSourceParamDTO.type,
                      baseDataSourceParamDTO, resolved, <<>>, resolved)
        ELSE Observed("buildConnectionParams", baseDataSourceParamDTO.type,
                      baseDataSourceParamDTO, resolved,
                      <<"createConnectionParams">>,
                      Cap_createConnectionParams(resolved.value,
                                                 baseDataSourceParamDTO))

buildConnectionParams ==
    /\ DispatcherFrame
    /\ UNCHANGED providerCalls
    /\ \E dto \in RawParams : last' = buildConnectionParams_obs(dto)

\* lines 90-92
buildConnectionParamsFromJson_obs(dbType, connectionJson) ==
    LET resolved == getDatasourceProcessor(dbType)
    IN  IF resolved.thrown
        THEN Observed("buildConnectionParamsFromJson", dbType, connectionJson,
                      resolved, <<>>, resolved)
        ELSE Observed("buildConnectionParamsFromJson", dbType, connectionJson,
                      resolved, <<"createConnectionParams">>,
                      Cap_createConnectionParamsFromJson(resolved.value,
                                                         connectionJson))

buildConnectionParamsFromJson ==
    /\ DispatcherFrame
    /\ UNCHANGED providerCalls
    /\ \E dbType \in DbType, connectionJson \in ConnectionJsons :
         last' = buildConnectionParamsFromJson_obs(dbType, connectionJson)

\* the mutant of getJdbcUrl_obs: the processor is resolved from the kind of
\* the connection parameter, and the DbType argument is ignored
getJdbcUrl_byParamKind(dbType, baseConnectionParam) ==
    LET resolved == getDatasourceProcessor(baseConnectionParam.kind)
    IN  IF resolved.thrown
        THEN Observed("getJdbcUrl", dbType, baseConnectionParam, resolved,
                      <<>>, resolved)
        ELSE Observed("getJdbcUrl", dbType, baseConnectionParam, resolved,
                      <<"getJdbcUrl">>,
                      Cap_getJdbcUrl(resolved.value, baseConnectionParam))

\* lines 94-96
getJdbcUrl_obs(dbType, baseConnectionParam) ==
    LET resolved == getDatasourceProcessor(dbType)
    IN  IF resolved.thrown
        THEN Observed("getJdbcUrl", dbType, baseConnectionParam, resolved,
                      <<>>, resolved)
        ELSE Observed("getJdbcUrl", dbType, baseConnectionParam, resolved,
                      <<"getJdbcUrl">>,
                      Cap_getJdbcUrl(resolved.value, baseConnectionParam))

getJdbcUrl ==
    /\ DispatcherFrame
    /\ UNCHANGED providerCalls
    /\ \E dbType \in DbType, baseConnectionParam \in ConnectionParams :
         last' = getJdbcUrl_obs(dbType, baseConnectionParam)

\* lines 98-100
buildDatasourceParamDTO_obs(dbType, connectionParams) ==
    LET resolved == getDatasourceProcessor(dbType)
    IN  IF resolved.thrown
        THEN Observed("buildDatasourceParamDTO", dbType, connectionParams,
                      resolved, <<>>, resolved)
        ELSE Observed("buildDatasourceParamDTO", dbType, connectionParams,
                      resolved, <<"createDatasourceParamDTO">>,
                      Cap_createDatasourceParamDTO(resolved.value,
                                                   connectionParams))

buildDatasourceParamDTO ==
    /\ DispatcherFrame
    /\ UNCHANGED providerCalls
    /\ \E dbType \in DbType, connectionParams \in ConnectionJsons :
         last' = buildDatasourceParamDTO_obs(dbType, connectionParams)

\* the mutant of getDatasourceUniqueId_obs: the dispatcher appends the
\* parameter's password to the processor's id
getDatasourceUniqueId_withSecret(connectionParam_, dbType) ==
    LET resolved == getDatasourceProcessor(dbType)
        id == Cap_getDatasourceUniqueId(resolved.value, connectionParam_,
                                        dbType)
    IN  IF resolved.thrown
        THEN Observed("getDatasourceUniqueId", dbType, connectionParam_,
                      resolved, <<>>, resolved)
        ELSE Observed("getDatasourceUniqueId", dbType, connectionParam_,
                      resolved, <<"getDatasourceUniqueId">>,
                      Returns(id.value \o <<"@">> \o connectionParam_.password))

\* lines 130-132
getDatasourceUniqueId_obs(connectionParam_, dbType) ==
    LET resolved == getDatasourceProcessor(dbType)
    IN  IF resolved.thrown
        THEN Observed("getDatasourceUniqueId", dbType, connectionParam_,
                      resolved, <<>>, resolved)
        ELSE Observed("getDatasourceUniqueId", dbType, connectionParam_,
                      resolved, <<"getDatasourceUniqueId">>,
                      Cap_getDatasourceUniqueId(resolved.value,
                                                connectionParam_, dbType))

\* the id history keeps the previous id request when it was for the same
\* DbType and the same class of connection parameters
getDatasourceUniqueId ==
    /\ DispatcherFrame
    /\ UNCHANGED providerCalls
    /\ \E dbType \in DbType, param \in ConnectionParams :
         LET sameKind == /\ last.op = "getDatasourceUniqueId"
                         /\ last.dbType = dbType
                         /\ last.input.kind = param.kind
         IN  last' = Following(getDatasourceUniqueId_obs(param, dbType),
                               sameKind)

DispatcherNext ==
    \/ resolveProcessor
    \/ checkDatasourceParam
    \/ buildConnectionParams
    \/ buildConnectionParamsFromJson
    \/ getJdbcUrl
    \/ buildDatasourceParamDTO
    \/ getDatasourceUniqueId

(***************************************************************************)
(* Concurrent callers.  The class has only static methods: a thread that   *)
(* calls one runs it on its own stack, so the parameters and the locals of *)
(* getMySqlTables (tables, connectionParam, conn, rs) belong to the        *)
(* calling thread's frame.  One statement is one step, and the steps of    *)
(* different threads interleave freely.  The static final processor fields *)
(* are all the state the class itself holds.                               *)
(***************************************************************************)
Threads == { "t1", "t2" }

\* rows a cursor yields in one call of a concurrent thread
MaxScan == 1

ThreadNames == { <<"a">>, <<"a", "b">> }

ThreadPatterns == { <<"a">>, <<"a", "DOTSTAR">>, <<"BAD">> }

ThreadDbTypes == { "MYSQL", "OTHER" }

ThreadParams == { c \in ConnectionParams :
                    c.kind = "MYSQL" /\ c.password = <<"s">> }

NoResource == [res |-> "none", by |-> "none"]

\* the connection the provider hands to thread t, and the result set its
\* getTables call opens
ConnectionOf(t) == [res |-> "Connection", by |-> t]

ResultSetOf(t) == [res |-> "ResultSet", by |-> t]

NoOutcome == [thrown |-> FALSE, value |-> <<>>]

\* the frame of a thread that is not inside a call
BlankFrame ==
    [pc |-> "idle", tablePattern |-> <<>>, tables |-> <<>>,
     conn |-> NoResource, rs |-> NoResource, pending |-> NoError,
     exit |-> NoError, yielded |-> <<>>, closed |-> <<>>,
     seen |-> NoOutcome]

\* the mutant of Store: tables is one static list, which every call appends
\* to
Store_static(t, frame) ==
    [u \in Threads |-> IF u = t THEN frame
                       ELSE [thread[u] EXCEPT !.tables = frame.tables]]

\* a step of thread t writes t's frame, and nothing else
Store(t, frame) == [thread EXCEPT ![t] = frame]

(* The frames one statement can leave, from the frame f it starts in: one  *)
(* for each answer of the environment.                                     *)

\* lines 134-140
frames_getMySqlTables(t, f) ==
    IF f.pc # "idle" THEN {}
    ELSE { IF got = "connection"
           THEN [BlankFrame EXCEPT !.pc = "getMetaData",
                                   !.tablePattern = tablePattern,
                                   !.conn = ConnectionOf(t)]
           ELSE [BlankFrame EXCEPT !.pc = "done",
                                   !.tablePattern = tablePattern,
                                   !.exit = Thrown("ConnectivityError",
                                                   "getConnection")] :
             tablePattern \in ThreadPatterns, got \in ProviderOutcomes }

\* line 143
frames_getMetaData(f) ==
    IF f.pc # "getMetaData" THEN {}
    ELSE { [f EXCEPT !.pc = "getTables"],
           [f EXCEPT !.pc = "closeRs",
                     !.pending = Thrown("SQLException", "getMetaData")] }

\* line 144
frames_getTables(t, f) ==
    IF f.pc # "getTables" THEN {}
    ELSE { [f EXCEPT !.pc = "next", !.rs = ResultSetOf(t)],
           [f EXCEPT !.pc = "closeRs",
                     !.pending = Thrown("SQLException", "getTables")] }

\* line 145
frames_next(f) ==
    IF f.pc # "next" THEN {}
    ELSE (IF Len(f.yielded) < MaxScan THEN { [f EXCEPT !.pc = "row"] }
          ELSE {})
         \cup { [f EXCEPT !.pc = "closeRs"],
                [f EXCEPT !.pc = "closeRs",
                          !.pending = Thrown("SQLException", "next")] }

\* lines 146-148
frames_row(f) ==
    IF f.pc # "row" THEN {}
    ELSE LET failed == [f EXCEPT !.pc = "closeRs",
                                 !.pending = Thrown("SQLException",
                                                    "getString")]
             read(name) == [f EXCEPT !.yielded = Append(@, name)]
         IN  { failed }
             \cup UNION {
                 IF ~PatternCompiles(f.tablePattern)
                 THEN { [read(name) EXCEPT
                            !.pc = "closeRs",
                            !.pending = Thrown("PatternSyntaxException",
                                               "matches")] }
                 ELSE IF PatternMatches(f.tablePattern, name)
                 THEN { [read(name) EXCEPT !.pc = "next",
                                           !.tables = Append(@, name)],
                        [read(name) EXCEPT
                            !.pc = "closeRs",
                            !.pending = Thrown("SQLException",
                                               "getString")] }
                 ELSE { [read(name) EXCEPT !.pc = "next"] } :
                 name \in ThreadNames }

\* lines 157-163
frames_closeRs(f) ==
    IF f.pc # "closeRs" THEN {}
    ELSE IF f.rs = NoResource THEN { [f EXCEPT !.pc = "closeStmt"] }
    ELSE { IF got = "RuntimeException"
           THEN [f EXCEPT !.pc = "done", !.closed = Append(@, f.rs),
                          !.exit = Thrown("RuntimeException", "rs.close")]
           ELSE [f EXCEPT !.pc = "closeStmt", !.closed = Append(@, f.rs)] :
             got \in CloseOutcomes }

\* lines 164-170, for the null statement of the one call site
frames_closeStmt(f) ==
    IF f.pc # "closeStmt" THEN {} ELSE { [f EXCEPT !.pc = "closeConn"] }

\* lines 171-177, and the end of the finally block
frames_closeConn(f) ==
    IF f.pc # "closeConn" THEN {}
    ELSE IF f.conn = NoResource
    THEN { [f EXCEPT !.pc = "done", !.exit = f.pending] }
    ELSE { IF got = "RuntimeException"
           THEN [f EXCEPT !.pc = "done", !.closed = Append(@, f.conn),
                          !.exit = Thrown("RuntimeException", "conn.close")]
           ELSE [f EXCEPT !.pc = "done", !.closed = Append(@, f.conn),
                          !.exit = f.pending] :
             got \in CloseOutcomes }

\* the frame is popped
frames_return(f) ==
    IF f.pc # "done" THEN {} ELSE { BlankFrame }

\* lines 130-132, called by a thread that is not inside getMySqlTables; the
\* thread keeps what the call gave it
frames_getDatasourceUniqueId(f) ==
    IF f.pc # "idle" THEN {}
    ELSE { [f EXCEPT !.seen =
                getDatasourceUniqueId_obs(param, dbType).outcome] :
             dbType \in ThreadDbTypes, param \in ThreadParams }

\* what every step of a thread leaves alone
ThreadFrame == UNCHANGED <<callVars, processors, formVars>>

t_getMySqlTables ==
    /\ ThreadFrame
    /\ \E t \in Threads :
         \E f \in frames_getMySqlTables(t, thread[t]) :
            thread' = Store(t, f)

t_getMetaData ==
    /\ ThreadFrame
    /\ \E t \in Threads :
         \E f \in frames_getMetaData(thread[t]) : thread' = Store(t, f)

t_getTables ==
    /\ ThreadFrame
    /\ \E t \in Threads :
         \E f \in frames_getTables(t, thread[t]) : thread' = Store(t, f)

t_next ==
    /\ ThreadFrame
    /\ \E t \in Threads :
         \E f \in frames_next(thread[t]) : thread' = Store(t, f)

t_row ==
    /\ ThreadFrame
    /\ \E t \in Threads :
         \E f \in frames_row(thread[t]) : thread' = Store(t, f)

t_closeRs ==
    /\ ThreadFrame
    /\ \E t \in Threads :
         \E f \in frames_closeRs(thread[t]) : thread' = Store(t, f)

t_closeStmt ==
    /\ ThreadFrame
    /\ \E t \in Threads :
         \E f \in frames_closeStmt(thread[t]) : thread' = Store(t, f)

t_closeConn ==
    /\ ThreadFrame
    /\ \E t \in Threads :
         \E f \in frames_closeConn(thread[t]) : thread' = Store(t, f)

t_return ==
    /\ ThreadFrame
    /\ \E t \in Threads :
         \E f \in frames_return(thread[t]) : thread' = Store(t, f)

t_getDatasourceUniqueId ==
    /\ ThreadFrame
    /\ \E t \in Threads :
         \E f \in frames_getDatasourceUniqueId(thread[t]) :
            thread' = Store(t, f)

ThreadsNext ==
    \/ t_getMySqlTables
    \/ t_getMetaData
    \/ t_getTables
    \/ t_next
    \/ t_row
    \/ t_closeRs
    \/ t_closeStmt
    \/ t_closeConn
    \/ t_return
    \/ t_getDatasourceUniqueId

(***************************************************************************)
(* The databus form component (databus.vue).  editor is a variable of the  *)
(* module, outside the component: every instance of the component reads    *)
(* and writes the same one.  An instance is created, mounted and           *)
(* destroyed by the form that hosts it; mounted() leaves a timer callback  *)
(* that runs _handlerEditor, and nothing cancels it.                       *)
(***************************************************************************)
\* instances of the component created in one behaviour
MaxMounts == 2

Scripts == { <<>>, <<"s">> }

\* line 196: `let editor`, before any assignment
Undefined == [defined |-> FALSE, value |-> <<>>, of |-> 0, detached |-> FALSE]

\* the CodeMirror object that _handlerEditor of the given instance makes
Editor(instance, rawScript) ==
    [defined |-> TRUE, value |-> rawScript, of |-> instance,
     detached |-> FALSE]

NoVerification == [called |-> FALSE]

FormInit ==
    /\ editor = Undefined
    /\ form = [phase |-> "none", instance |-> 0, rawScript |-> <<>>,
               noRes |-> 0]
    /\ timer = {}
    /\ verified = NoVerification

\* what every step of the component leaves alone
FormFrame == UNCHANGED <<callVars, processors, thread>>

\* data() and created(): a new instance, its rawScript backfilled
created ==
    /\ FormFrame
    /\ form.phase \in { "none", "destroyed" }
    /\ form.instance < MaxMounts
    /\ \E rawScript \in Scripts :
         form' = [phase |-> "created", instance |-> form.instance + 1,
                  rawScript |-> rawScript, noRes |-> 0]
    /\ UNCHANGED <<editor, timer, verified>>

\* lines 508-512: setTimeout(() => this._handlerEditor(), 200)
mounted ==
    /\ FormFrame
    /\ form.phase = "created"
    /\ form' = [form EXCEPT !.phase = "mounted"]
    /\ timer' = timer \cup { [instance |-> form.instance,
                              rawScript |-> form.rawScript] }
    /\ UNCHANGED <<editor, verified>>

\* lines 341-361, run by the timer of the instance that set it.  For an
\* instance destroyed in the meantime, codemirror() either builds the
\* editor all the same or throws before the assignment.
_handlerEditor ==
    /\ FormFrame
    /\ \E callback \in timer :
         /\ timer' = timer \ { callback }
         /\ IF callback.instance = form.instance /\ form.phase = "mounted"
            THEN editor' = Editor(callback.instance, callback.rawScript)
            ELSE \/ editor' = Editor(callback.instance, callback.rawScript)
                 \/ UNCHANGED editor
    /\ UNCHANGED <<form, verified>>

\* lines 278-280: editor.setValue(val), with the text of the script box
getSriptBoxValue ==
    /\ FormFrame
    /\ form.phase = "mounted"
    /\ editor.defined
    /\ \E val \in Scripts : editor' = [editor EXCEPT !.value = val]
    /\ UNCHANGED <<form, timer, verified>>

\* lines 417-428: the watcher of resourceIdArr assigns noRes
resourceIdArr ==
    /\ FormFrame
    /\ form.phase = "mounted"
    /\ \E n \in 0..1 : form' = [form EXCEPT !.noRes = n]
    /\ UNCHANGED <<editor, timer, verified>>

\* what a _verification call did: whether it returned true or false or
\* threw, the on-params events it emitted, and what it had in front of it
Verification(result, emitted, verifProp) ==
    [called |-> TRUE, result |-> result, emitted |-> emitted,
     editorDefined |-> editor.defined, script |-> editor.value,
     verifProp |-> verifProp, noRes |-> form.noRes]

\* lines 308-337; verifProp is what refLocalParams._verifProp() returns
_verification_does(verifProp) ==
    IF ~editor.defined THEN Verification("TypeError", 0, verifProp)
    ELSE IF editor.value = <<>> THEN Verification("false", 0, verifProp)
    ELSE IF ~verifProp THEN Verification("false", 0, verifProp)
    ELSE IF form.noRes > 0 THEN Verification("false", 0, verifProp)
    ELSE Verification("true", 1, verifProp)

_verification ==
    /\ FormFrame
    /\ form.phase = "mounted"
    /\ \E verifProp \in BOOLEAN : verified' = _verification_does(verifProp)
    /\ UNCHANGED <<editor, form, timer>>

\* lines 513-518: the editor is uninstalled; the module variable keeps it
destroyed ==
    /\ FormFrame
    /\ form.phase = "mounted"
    /\ form' = [form EXCEPT !.phase = "destroyed"]
    /\ editor' = IF editor.defined THEN [editor EXCEPT !.detached = TRUE]
                 ELSE editor
    /\ UNCHANGED <<timer, verified>>

FormNext ==
    \/ created
    \/ mounted
    \/ _handlerEditor
    \/ getSriptBoxValue
    \/ resourceIdArr
    \/ _verification
    \/ destroyed

Init ==
    /\ pc = "idle"
    /\ LocalsBlank
    /\ open = {}
    /\ nCalls = 0
    /\ providerCalls = 0
    /\ processors = StaticProcessors
    /\ last = NoOp
    /\ thread = [t \in Threads |-> BlankFrame]
    /\ FormInit

Next == TablesNext \/ DispatcherNext

Spec == Init /\ [][Next]_vars

SpecThreads == Init /\ [][ThreadsNext]_vars

SpecForm == Init /\ [][FormNext]_vars

(***************************************************************************)
(* Properties of getMySqlTables.  At pc = "done" the method has reached    *)
(* its end: exit is the exception leaving it (NoError for a return), and   *)
(* the locals and the call's histories are still in place.                 *)
(***************************************************************************)
Count(log, x) == Cardinality({ i \in 1..Len(log) : log[i] = x })

\* C1, as claimed: in every call that obtained a connection, the release
\* calls made are the cursor's, then the statement's, then the connection's,
\* all three, on every path: past the cursor's step of close the cursor's
\* release has been attempted, past the statement's step the statement's
\* too, and at the end of the method all three, in this order.
C1_ReleasesAllThreeInOrder ==
    /\ pc = "closeStmt" => closeLog = <<"rs">>
    /\ pc = "closeConn" => closeLog = <<"rs", "stmt">>
    /\ (pc = "done" /\ conn # 0) => closeLog = <<"rs", "stmt", "conn">>

UncheckedFrom(origin) == Thrown("RuntimeException", origin)

\* C1, amended: in every call that obtained a connection the release calls
\* made are the cursor's and then the connection's, each at most once, and
\* never the statement's (the call holds no statement).  The cursor's is made
\* exactly when the cursor was obtained, whether or not the scan failed; the
\* connection's is made on every path but one: an unchecked exception of the
\* cursor's release leaves the method at once.
C1_ReleasesCursorThenConnection ==
    (pc = "done" /\ conn # 0) =>
        closeLog = (IF rs # 0 THEN <<"rs">> ELSE <<>>)
                   \o (IF exit = UncheckedFrom("rs.close")
                       THEN <<>> ELSE <<"conn">>)

\* a failed scan whose cursor release failed with SQLException, followed by
\* the connection release
C1_Witness ==
    /\ pc = "done"
    /\ conn # 0
    /\ pending # NoError
    /\ diagnostics = <<"rs">>
    /\ closeLog = <<"rs", "conn">>

\* C2: a failure of a release call is never observed by the caller: the
\* method ends as its try block ended, with the list when the scan
\* succeeded and with the scan's exception when the scan threw.
C2_ReleaseFailureNeverObserved ==
    (pc = "done" /\ conn # 0) => exit = pending

\* C3, as claimed: when the scan throws after a connection was obtained,
\* each of the three release calls is made exactly once before the
\* exception leaves the method (the cursor's by the end of its step of
\* close, the statement's by the end of its step), and the exception
\* leaving the method is the scan's.
C3_FailedScanReleasesEachOnce ==
    pending # NoError =>
        /\ pc \in { "closeStmt", "closeConn" } => Count(closeLog, "rs") = 1
        /\ pc = "closeConn" => Count(closeLog, "stmt") = 1
        /\ (pc = "done" /\ conn # 0) =>
             /\ Count(closeLog, "rs") = 1
             /\ Count(closeLog, "stmt") = 1
             /\ Count(closeLog, "conn") = 1
             /\ exit = pending

\* C3, amended: when the scan throws after a connection was obtained, then
\* before anything leaves the method the cursor release is made exactly once
\* if the cursor had been obtained and not at all otherwise, the statement
\* release is never made, and the connection release is made exactly once,
\* except that an unchecked exception of the cursor release skips it; the
\* exception leaving the method is the scan's, except that an unchecked
\* exception of a release call replaces it.
C3_FailedScanReleasesWhatItHolds ==
    (pc = "done" /\ conn # 0 /\ pending # NoError) =>
        /\ Count(closeLog, "rs") = (IF rs # 0 THEN 1 ELSE 0)
        /\ Count(closeLog, "stmt") = 0
        /\ Count(closeLog, "conn") =
             (IF exit = UncheckedFrom("rs.close") THEN 0 ELSE 1)
        /\ exit \in { pending, UncheckedFrom("rs.close"),
                      UncheckedFrom("conn.close") }

\* a scan that threw after yielding a row, with both releases made and the
\* connection's failing with SQLException, and the scan's exception leaving
C3_Witness ==
    /\ pc = "done"
    /\ yielded # <<>>
    /\ pending = Thrown("SQLException", "next")
    /\ closeLog = <<"rs", "conn">>
    /\ diagnostics = <<"conn">>
    /\ exit = pending

\* C4: once a call has finished, no connection and no cursor it acquired is
\* left without its release.
C4_NothingLeftOpen ==
    pc \in { "done", "idle" } => open = {}

WholeNameMatches(name) == MatchHere(args.tablePattern, name)

\* C5: on a normal return the list is exactly the names the complete scan
\* yielded that match the pattern as a whole, in scan order.
C5_ResultIsFullMatchSubsequence ==
    (pc = "done" /\ exit = NoError) =>
        tables = SelectSeq(yielded, WholeNameMatches)

\* a normal return whose scan yielded a name that only contains a match,
\* which is left out, and a name that matches, which is kept
C5_Witness ==
    /\ pc = "done"
    /\ exit = NoError
    /\ tables # <<>>
    /\ \E i \in 1..Len(yielded) :
         /\ PatternFinds(args.tablePattern, yielded[i])
         /\ ~WholeNameMatches(yielded[i])
         /\ \A j \in 1..Len(tables) : tables[j] # yielded[i]

\* C9: when the provider supplies no connection, its error leaves the method
\* as it is: no metadata query was issued, no list is returned and no release
\* call was made.
C9_ProviderFailurePropagates ==
    (pc = "done" /\ conn = 0) =>
        /\ exit = Thrown("ConnectivityError", "getConnection")
        /\ ~query.issued
        /\ rs = 0
        /\ closeLog = <<>>

C9_Witness ==
    /\ pc = "done"
    /\ conn = 0
    /\ providerCalls = nCalls
    /\ nCalls > 0

(***************************************************************************)
(* Properties of the dispatcher.                                           *)
(***************************************************************************)
DispatcherOps ==
    { "getDatasourceProcessor", "checkDatasourceParam",
      "buildConnectionParams", "buildConnectionParamsFromJson", "getJdbcUrl",
      "buildDatasourceParamDTO", "getDatasourceUniqueId" }

\* validate, both buildDescriptor forms, buildUrl, buildRawParams,
\* buildUniqueId
ConfigOps == DispatcherOps \ { "getDatasourceProcessor" }

ProcessorObjects == { processors[f] : f \in DOMAIN processors }

\* C6: the fields never change; every resolution of a supported DbType gives
\* one of the processor objects, the same one on every call, and a different
\* one for a different DbType; any other DbType makes the call throw
\* IllegalArgumentException before any processor is used.
C6_DispatcherMappingTotalImmutable ==
    /\ processors = StaticProcessors
    /\ last.op \in DispatcherOps =>
         /\ last.dbType \in SupportedTypes =>
              /\ ~last.resolved.thrown
              /\ last.resolved.value \in ProcessorObjects
         /\ last.dbType \notin SupportedTypes =>
              /\ last.resolved = Throws("IllegalArgumentException")
              /\ last.outcome = last.resolved
              /\ last.capCalls = <<>>
    /\ (last.op = "getDatasourceProcessor" /\ last.before # NoOp) =>
         /\ last.before.dbType = last.dbType =>
              last.before.outcome = last.outcome
         /\ (/\ last.before.dbType # last.dbType
             /\ ~last.outcome.thrown
             /\ ~last.before.outcome.thrown) =>
              last.before.outcome.value # last.outcome.value

\* two resolutions in a row, of different supported DbTypes
C6_Witness ==
    /\ last.op = "getDatasourceProcessor"
    /\ last.before # NoOp
    /\ last.dbType \in SupportedTypes
    /\ last.before.dbType \in SupportedTypes
    /\ last.before.dbType # last.dbType

\* C7, as claimed: buildConnectionParams on parameters that fail the check
\* reports the validation failure and never reaches the processor's
\* createConnectionParams.
C7_InvalidParamsNeverReachConstruction ==
    (/\ last.op = "buildConnectionParams"
     /\ last.dbType \in SupportedTypes
     /\ OffendingFields(last.input) # {}) =>
        /\ last.outcome.thrown
        /\ last.outcome.error = "ValidationError"
        /\ last.capCalls = <<>>

\* C7, amended: buildConnectionParams does not validate.  For parameters of
\* a supported DbType, valid or not, it calls the processor's
\* createConnectionParams exactly once, calls no check, and gives what that
\* call gives; a validation failure is reported only by
\* checkDatasourceParam, which calls the processor's check exactly once and
\* never reaches createConnectionParams.
C7_BuildForwardsWithoutValidating ==
    /\ (last.op = "buildConnectionParams"
        /\ last.dbType \in SupportedTypes) =>
         /\ last.capCalls = <<"createConnectionParams">>
         /\ last.outcome =
              Cap_createConnectionParams(last.resolved.value, last.input)
    /\ (last.op = "checkDatasourceParam"
        /\ last.dbType \in SupportedTypes) =>
         /\ last.capCalls = <<"checkDatasourceParam">>
         /\ last.outcome.thrown <=> OffendingFields(last.input) # {}
         /\ last.outcome.thrown =>
              /\ last.outcome.error = "ValidationError"
              /\ last.outcome.fields = OffendingFields(last.input)

\* connection parameters built from parameters with an empty host
C7_Witness ==
    /\ last.op = "buildConnectionParams"
    /\ last.dbType \in SupportedTypes
    /\ "host" \in OffendingFields(last.input)
    /\ ~last.outcome.thrown
    /\ last.outcome.value.address = <<>>

\* C8: no step that completes a config-time operation, whether it returns or
\* throws, changes the number of getConnection calls the provider received
\* (a step that leaves last an observation of a config-time operation is
\* such a step: getMySqlTables clears last when it starts).
C8_ConfigOpsNeverCallProvider ==
    [][last'.op \in ConfigOps => providerCalls' = providerCalls]_vars

\* a check of parameters with an empty host, rejected naming host, made
\* after a getMySqlTables call had used the provider
C8_Witness ==
    /\ last.op = "checkDatasourceParam"
    /\ last.input.host = <<>>
    /\ last.outcome.thrown
    /\ last.outcome.error = "ValidationError"
    /\ "host" \in last.outcome.fields
    /\ providerCalls = 1

SameButPassword(p, q) == [p EXCEPT !.password = q.password] = q

DescriptorOps == { "getJdbcUrl", "getDatasourceUniqueId" }

\* C11, as claimed: getJdbcUrl and getDatasourceUniqueId hand the connection
\* parameter only to the processor of the kind that produced the parameter,
\* and getMySqlTables asks the provider of the kind of the parameter it built
C11_DescriptorOnlyToItsOwnKind ==
    /\ (last.op \in DescriptorOps /\ last.capCalls # <<>>)
           => KindOf(last.resolved.value) = last.input.kind
    /\ asked # NoRequest => asked.dbType = asked.param.kind

\* C11 (amended): getJdbcUrl and getDatasourceUniqueId hand the connection
\* parameter to the processor of their DbType argument, whatever kind
\* produced the parameter, and to no processor when the DbType is outside
\* the switch; getMySqlTables asks the provider for DbType.MYSQL with the
\* MysqlConnectionParam it built itself from its own arguments
C11_DescriptorGoesToProcessorOfDbTypeArgument ==
    /\ last.op \in DescriptorOps =>
          IF last.dbType \in SupportedTypes
          THEN /\ ~last.resolved.thrown
               /\ last.resolved.value \in ProcessorObjects
               /\ KindOf(last.resolved.value) = last.dbType
               /\ last.capCalls = <<last.op>>
          ELSE /\ last.resolved.thrown
               /\ last.capCalls = <<>>
    /\ pc # "idle" =>
          /\ asked = [dbType |-> "MYSQL", param |-> connectionParam]
          /\ connectionParam = [kind |-> "MYSQL", jdbcUrl |-> args.url,
                                user |-> args.user,
                                password |-> args.password]

\* a MySQL connection parameter was handed to the Hive processor
C11_Witness ==
    /\ last.op \in DescriptorOps
    /\ last.capCalls # <<>>
    /\ last.input.kind = "MYSQL"
    /\ KindOf(last.resolved.value) = "HIVE"

(***************************************************************************)
(* Properties of concurrent calls.                                         *)
(***************************************************************************)
\* the frames thread t's call can be in after its next statement when it
\* runs alone, from frame f
AloneSteps(t, f) ==
    frames_getMySqlTables(t, f) \cup frames_getMetaData(f)
        \cup frames_getTables(t, f) \cup frames_next(f) \cup frames_row(f)
        \cup frames_closeRs(f) \cup frames_closeStmt(f)
        \cup frames_closeConn(f) \cup frames_return(f)
        \cup frames_getDatasourceUniqueId(f)

\* what getDatasourceUniqueId gives a thread that runs alone, at any time
AloneIds ==
    { getDatasourceUniqueId_obs(param, dbType).outcome :
        dbType \in ThreadDbTypes, param \in ThreadParams }

\* every thread has released only the connection and the result set handed
\* to itself, holds only names its own scan yielded and its own pattern
\* matches, and has seen only what the dispatcher gives a single caller
OwnResourcesOwnNames ==
    /\ processors = StaticProcessors
    /\ \A t \in Threads :
         LET f == thread[t]
             Keeps(name) == PatternMatches(f.tablePattern, name)
         IN  /\ \A i \in 1..Len(f.closed) : f.closed[i].by = t
             /\ f.conn \in { NoResource, ConnectionOf(t) }
             /\ f.rs \in { NoResource, ResultSetOf(t) }
             /\ \E n \in 0..Len(f.yielded) :
                   f.tables = SelectSeq(SubSeq(f.yielded, 1, n), Keeps)
             /\ f.pc = "done" /\ f.exit = NoError =>
                   f.tables = SelectSeq(f.yielded, Keeps)
             /\ f.seen = NoOutcome \/ f.seen \in AloneIds

\* a step changes the frame of one thread, to a frame that this thread's
\* call reaches by its next statement when it runs alone, and leaves the
\* static fields as they are
OneThreadStepsAlone ==
    /\ processors' = processors
    /\ \A t \in Threads :
         \/ thread'[t] = thread[t]
         \/ /\ thread'[t] \in AloneSteps(t, thread[t])
            /\ \A u \in Threads \ { t } : thread'[u] = thread[u]

\* C12: under every interleaving of getMySqlTables calls and dispatcher
\* calls of concurrent threads, each call releases only the resources it
\* acquired and accumulates only names of its own scan, and every step of a
\* call is the step the call takes when it runs alone: no step of one
\* thread changes what another thread's call reads.
C12_ConcurrentCallsRunAsAlone ==
    []OwnResourcesOwnNames /\ [][OneThreadStepsAlone]_vars

\* two calls overlap: one has returned the name its scan yielded, with its
\* two releases made, while the other, which accumulated a different name,
\* is between its releases
C12_Witness ==
    /\ thread["t1"].pc = "closeConn"
    /\ thread["t1"].tables = << <<"a">> >>
    /\ thread["t1"].closed = << ResultSetOf("t1") >>
    /\ thread["t2"].pc = "done"
    /\ thread["t2"].exit = NoError
    /\ thread["t2"].tables = << <<"a", "b">> >>
    /\ thread["t2"].closed = << ResultSetOf("t2"), ConnectionOf("t2") >>

(***************************************************************************)
(* Properties of the databus form.                                         *)
(***************************************************************************)
\* C13, as claimed: whenever _verification is called, also before the timer
\* has created the editor, it returns true and emits on-params once if the
\* editor's script is not empty, the local parameters verify and noRes is
\* empty, and returns false and emits nothing otherwise
C13_VerificationDecides ==
    verified.called =>
        LET passes == /\ verified.script # <<>>
                      /\ verified.verifProp
                      /\ verified.noRes = 0
        IN  /\ verified.result = IF passes THEN "true" ELSE "false"
            /\ verified.emitted = IF passes THEN 1 ELSE 0

====
